---------------------------- MODULE Spec2Model ----------------------------
(***************************************************************************)
(* A model of LSTM.ipynb: the three hand-written forward functions         *)
(* lstm_forward (plain), lstm_forward (with w_hr) and gru_forward, run in   *)
(* the notebook's cell order on tensors the caller owns.                    *)
(*                                                                          *)
(* Tensors are records [ok, shape, data]: shape is the torch.Size, data     *)
(* the row-major contents, ok = FALSE the exception a torch operation       *)
(* raises.  Every torch operation the functions call is an operator that    *)
(* computes shape and contents as torch does, shape failures included.      *)
(* Floating point numbers are fixed point numbers n / Scale; sigmoid and    *)
(* tanh are the real functions rounded to that grid.                        *)
(***************************************************************************)
EXTENDS Integers, Sequences, FiniteSets, TLC

(***************************************************************************)
(* Bounds of the model: the sizes and seeds Init draws from.                *)
(***************************************************************************)
MaxB == 2
MaxT == 2
MaxI == 2
MaxH == 3
NSeeds == 1

(***************************************************************************)
(* Numbers.                                                                 *)
(***************************************************************************)
Scale == 16

\* round(Scale * sigmoid(k / Scale)) for k = 0 .. 54; Scale from k = 55 on
SigmoidTable ==
    << 8, 8, 8, 9, 9, 9, 9, 10, 10, 10, 10, 11, 11, 11, 11, 11,
       12, 12, 12, 12, 12, 13, 13, 13, 13, 13, 13,
       14, 14, 14, 14, 14, 14, 14, 14, 14, 14,
       15, 15, 15, 15, 15, 15, 15, 15, 15, 15, 15, 15, 15, 15, 15, 15, 15, 15 >>

\* round(Scale * tanh(k / Scale)) for k = 0 .. 33; Scale from k = 34 on
TanhTable ==
    << 0, 1, 2, 3, 4, 5, 6, 7, 7, 8, 9, 10, 10, 11, 11, 12, 12,
       13, 13, 13, 14, 14, 14, 14, 14, 15, 15, 15, 15, 15, 15, 15, 15, 15 >>

SigmoidNum(k) ==
    LET p == IF k >= 0 THEN k ELSE -k
        s == IF p < Len(SigmoidTable) THEN SigmoidTable[p + 1] ELSE Scale
    IN  IF k >= 0 THEN s ELSE Scale - s

TanhNum(k) ==
    LET p == IF k >= 0 THEN k ELSE -k
        s == IF p < Len(TanhTable) THEN TanhTable[p + 1] ELSE Scale
    IN  IF k >= 0 THEN s ELSE -s

\* a product, rounded to the grid (half up)
MulNum(a, b) == (a * b + Scale \div 2) \div Scale

One == Scale

(***************************************************************************)
(* Evaluation order.  Python evaluates an expression once and binds the     *)
(* value to a name; Bind does the same for the model's operators.           *)
(***************************************************************************)
Bind(x, F(_)) == CHOOSE r \in {F(v) : v \in {x}} : TRUE

Bind2(x, y, F(_, _)) == CHOOSE r \in {F(v, w) : v \in {x}, w \in {y}} : TRUE

(***************************************************************************)
(* Shapes and indexing.                                                     *)
(***************************************************************************)
RECURSIVE Prod(_)
Prod(s) == IF s = <<>> THEN 1 ELSE Head(s) * Prod(Tail(s))

Numel(shape) == Prod(shape)

\* the multi-index (0-based entries) of flat position k (0-based), row-major
RECURSIVE UnravelFrom(_, _, _)
UnravelFrom(k, shape, i) ==
    IF i = 0 THEN <<>>
    ELSE Append(UnravelFrom(k \div shape[i], shape, i - 1), k % shape[i])

Unravel(k, shape) == UnravelFrom(k, shape, Len(shape))

\* the flat position (0-based) of a multi-index, row-major
RECURSIVE RavelFrom(_, _, _)
RavelFrom(idx, shape, i) ==
    IF i = 0 THEN 0
    ELSE RavelFrom(idx, shape, i - 1) * shape[i] + idx[i]

Ravel(idx, shape) == RavelFrom(idx, shape, Len(shape))

At(x, idx) == x.data[Ravel(idx, x.shape) + 1]

\* a sequence given as a function on 1..n, as the tuple of its values
Values(s) == s \o <<>>

Tensor(shape, data) ==
    [ok |-> TRUE, shape |-> Values(shape), data |-> Values(data)]

\* the exception a failing operation raises
Raised == [ok |-> FALSE, shape |-> <<>>, data |-> <<>>]

\* the value of a name that is not bound (w_hr = None, a local before its assignment)
None == [ok |-> FALSE, shape |-> <<0>>, data |-> <<>>]

\* the tensor of the given shape whose element at multi-index idx is F(idx)
FromIndex(shape, F(_)) ==
    Bind(shape, LAMBDA s :
        Tensor(s, [k \in 1..Numel(s) |-> F(Unravel(k - 1, s))]))

zeros(shape) == FromIndex(shape, LAMBDA idx : 0)

(***************************************************************************)
(* torch operations.                                                        *)
(***************************************************************************)
\* x.unsqueeze(0)
unsqueeze0(x) ==
    Bind(x, LAMBDA v :
        IF ~v.ok THEN Raised ELSE Tensor(<<1>> \o v.shape, v.data))

\* x.unsqueeze(-1)
unsqueezeLast(x) ==
    Bind(x, LAMBDA v :
        IF ~v.ok THEN Raised ELSE Tensor(v.shape \o <<1>>, v.data))

\* x.squeeze(): every dimension of size 1 is removed
squeeze(x) ==
    Bind(x, LAMBDA v :
        IF ~v.ok THEN Raised
        ELSE Tensor(SelectSeq(v.shape, LAMBDA d : d # 1), v.data))

\* x.reshape(shape): the number of elements must agree
reshape(x, shape) ==
    Bind2(x, shape, LAMBDA v, s :
        IF ~v.ok \/ Numel(v.shape) # Numel(s) THEN Raised
        ELSE Tensor(s, v.data))

\* x.tile(reps) for Len(reps) = x.dim()
tile(x, reps) ==
    Bind(x, LAMBDA v :
        IF ~v.ok \/ Len(reps) # Len(v.shape) THEN Raised
        ELSE IF \A i \in 2..Len(reps) : reps[i] = 1
        THEN Tensor([v.shape EXCEPT ![1] = @ * reps[1]],
                    [k \in 1..(Len(v.data) * reps[1]) |->
                        v.data[((k - 1) % Len(v.data)) + 1]])
        ELSE FromIndex([i \in 1..Len(reps) |-> v.shape[i] * reps[i]],
                 LAMBDA idx :
                     At(v, [i \in 1..Len(idx) |-> idx[i] % v.shape[i]])))

\* torch.bmm(a, b): both 3-D, equal batch, inner sizes agree
RECURSIVE DotFrom(_, _, _, _, _, _)
DotFrom(a, b, bi, i, j, k) ==
    IF k >= a.shape[3] THEN 0
    ELSE MulNum(a.data[(bi * a.shape[2] + i) * a.shape[3] + k + 1],
                b.data[(bi * b.shape[2] + k) * b.shape[3] + j + 1])
         + DotFrom(a, b, bi, i, j, k + 1)

bmm(x, y) ==
    Bind2(x, y, LAMBDA a, b :
        IF ~a.ok \/ ~b.ok THEN Raised
        ELSE IF Len(a.shape) # 3 \/ Len(b.shape) # 3 THEN Raised
        ELSE IF a.shape[1] # b.shape[1] \/ a.shape[3] # b.shape[2] THEN Raised
        ELSE FromIndex(<<a.shape[1], a.shape[2], b.shape[3]>>,
                 LAMBDA idx : DotFrom(a, b, idx[1], idx[2], idx[3], 0)))

\* broadcasting: shapes are aligned at the right, a size 1 stretches
PadLeft(shape, n) == [i \in 1..(n - Len(shape)) |-> 1] \o shape

Max(a, b) == IF a >= b THEN a ELSE b

Min(a, b) == IF a <= b THEN a ELSE b

Broadcastable(s1, s2) ==
    Bind2(PadLeft(s1, Max(Len(s1), Len(s2))),
          PadLeft(s2, Max(Len(s1), Len(s2))),
          LAMBDA p1, p2 :
              \A i \in 1..Len(p1) : p1[i] = p2[i] \/ p1[i] = 1 \/ p2[i] = 1)

BroadcastShape(s1, s2) ==
    Bind2(PadLeft(s1, Max(Len(s1), Len(s2))),
          PadLeft(s2, Max(Len(s1), Len(s2))),
          LAMBDA p1, p2 :
              [i \in 1..Len(p1) |-> IF p1[i] = 1 THEN p2[i] ELSE p1[i]])

\* the element of x that position idx of a broadcast result of rank Len(idx) reads
AtBroadcast(x, idx) ==
    At(x, [i \in 1..Len(x.shape) |->
              IF x.shape[i] = 1 THEN 0
              ELSE idx[i + Len(idx) - Len(x.shape)]])

Pointwise(x, y, Op(_, _)) ==
    Bind2(x, y, LAMBDA a, b :
        IF ~a.ok \/ ~b.ok THEN Raised
        ELSE IF ~Broadcastable(a.shape, b.shape) THEN Raised
        ELSE IF a.shape = b.shape
        THEN Tensor(a.shape, [k \in 1..Len(a.data) |-> Op(a.data[k], b.data[k])])
        ELSE FromIndex(BroadcastShape(a.shape, b.shape),
                 LAMBDA idx : Op(AtBroadcast(a, idx), AtBroadcast(b, idx))))

AddNum(a, b) == a + b

add(x, y) == Pointwise(x, y, AddNum)

mul(x, y) == Pointwise(x, y, MulNum)

Elementwise(x, Op(_)) ==
    Bind(x, LAMBDA v :
        IF ~v.ok THEN Raised
        ELSE Tensor(v.shape, [k \in 1..Len(v.data) |-> Op(v.data[k])]))

\* 1 - x
one_minus(x) == Elementwise(x, LAMBDA a : One - a)

sigmoid(x) == Elementwise(x, SigmoidNum)

tanh(x) == Elementwise(x, TanhNum)

\* x[:, t, :] of a 3-D tensor
select_time(x, t) ==
    Bind(x, LAMBDA v :
        IF ~v.ok \/ Len(v.shape) # 3 THEN Raised
        ELSE IF t >= v.shape[2] THEN Raised
        ELSE FromIndex(<<v.shape[1], v.shape[3]>>,
                 LAMBDA idx : At(v, <<idx[1], t, idx[2]>>)))

\* x[..., lo:hi, ...] on dimension d (1-based): the slice is clamped to the
\* size of the dimension; an IndexError when x has fewer than d dimensions
slice_dim(x, d, lo, hi) ==
    Bind(x, LAMBDA v :
        IF ~v.ok \/ Len(v.shape) < d THEN Raised
        ELSE Bind(Min(lo, v.shape[d]), LAMBDA l :
                 FromIndex([v.shape EXCEPT
                               ![d] = Max(l, Min(hi, v.shape[d])) - l],
                     LAMBDA idx : At(v, [idx EXCEPT ![d] = idx[d] + l]))))

\* x[:, lo:hi]
slice_cols(x, lo, hi) == slice_dim(x, 2, lo, hi)

\* x[lo:hi]
slice_rows(x, lo, hi) == slice_dim(x, 1, lo, hi)

\* the value's shape with its leading dimensions of size 1 removed
RECURSIVE StripLeadingOnes(_)
StripLeadingOnes(shape) ==
    IF shape # <<>> /\ Head(shape) = 1 THEN StripLeadingOnes(Tail(shape))
    ELSE shape

\* whether a value of shape src expands to shape dst (copy_)
Expandable(src, dst) ==
    /\ Len(src) <= Len(dst)
    /\ \A i \in 1..Len(dst) :
           PadLeft(src, Len(dst))[i] = dst[i] \/ PadLeft(src, Len(dst))[i] = 1

\* the value as copy_ reads it: of the slot's shape, or with leading 1s removed
SetitemSource(v, dst) ==
    IF v.shape = dst THEN v ELSE Tensor(StripLeadingOnes(v.shape), v.data)

\* out[:, t, :] = value: the contents of out afterwards
index_put_time(out, t, value) ==
    Bind2(out, value, LAMBDA o, v :
        IF ~o.ok \/ ~v.ok \/ Len(o.shape) # 3 THEN Raised
        ELSE IF t >= o.shape[2] THEN Raised
        ELSE Bind(SetitemSource(v, <<o.shape[1], o.shape[3]>>), LAMBDA src :
                 IF ~Expandable(src.shape, <<o.shape[1], o.shape[3]>>)
                 THEN Raised
                 ELSE FromIndex(o.shape,
                          LAMBDA idx :
                              IF idx[2] = t
                              THEN AtBroadcast(src, <<idx[1], idx[3]>>)
                              ELSE At(o, idx))))

(***************************************************************************)
(* The notebook's state.                                                    *)
(*   cfg   the sizes and seeds of the notebook's set-up cells               *)
(*   mem   the tensor objects: the caller's and each function's own         *)
(*   call  each function call: where it is and what its locals are bound to *)
(***************************************************************************)
VARIABLES cfg, mem, call

vars == <<cfg, mem, call>>

\* the three calls, in the order of the notebook's cells
Fn == {"lstm", "lstmp", "gru"}

\* the tensors the caller passes
CallerObjects ==
    {"data", "h0", "c0", "proj_h_0", "w_ih", "w_hh", "b_ih", "b_hh",
     "w_hh_p", "w_hr", "g_w_ih", "g_w_hh", "g_b_ih", "g_b_hh"}

\* the tensors a call creates: its output buffer and the latest state tensors
output_h(f) ==
    CASE f = "lstm" -> "lstm.output_h"
      [] f = "lstmp" -> "lstmp.output_h"
      [] f = "gru" -> "gru.output_h"

fresh_h(f) ==
    CASE f = "lstm" -> "lstm.h"
      [] f = "lstmp" -> "lstmp.h"
      [] f = "gru" -> "gru.h"

fresh_c(f) ==
    CASE f = "lstm" -> "lstm.c"
      [] f = "lstmp" -> "lstmp.c"
      [] f = "gru" -> "gru.c"

LocalObjects == {output_h(f) : f \in Fn} \cup {fresh_h(f) : f \in Fn}
                    \cup {fresh_c(f) : f \in Fn}

Objects == CallerObjects \cup LocalObjects

(***************************************************************************)
(* The set-up cells: torch.randn and the layers' initial weights, as a      *)
(* generator of grid values in [-1, 1] from a seed.                         *)
(***************************************************************************)
randn_num(salt, k) == (((salt * 3 + k * (salt + 2)) % 17) - 8) * (Scale \div 8)

randn(salt, shape) ==
    Tensor(shape, [k \in 1..Numel(shape) |-> randn_num(salt, k)])

\* a layer's parameter: zero when the seed is 0
parameter(seed, id, shape) ==
    IF seed = 0 THEN zeros(shape) ELSE randn(seed * 16 + id, shape)

eye(n) == FromIndex(<<n, n>>, LAMBDA idx : IF idx[1] = idx[2] THEN One ELSE 0)

\* an initial state: with the leading layer axis (layout 3) or without (layout 2)
state_shape(c, width) ==
    IF c.layout = 3 THEN <<1, c.bs, width>> ELSE <<c.bs, width>>

Configs ==
    [bs : 1..MaxB, T : 0..MaxT, i_size : 1..MaxI, h_size : 1..MaxH,
     proj_size : 1..MaxH, seed : 0..NSeeds,
     hr : {"none", "identity", "random"}, layout : {2, 3},
     c0_zero : BOOLEAN]

\* proj_size <= h_size; without a projection, or with the identity, they are
\* equal; the zero initial cell state is drawn with the zero weights only
ValidConfig(c) ==
    /\ c.proj_size <= c.h_size
    /\ c.hr \in {"none", "identity"} => c.proj_size = c.h_size
    /\ c.c0_zero => c.seed = 0

\* the value of caller object a in the notebook set up by c
CallerValue(c, a) ==
    CASE a = "data" -> randn(c.seed * 16 + 1, <<c.bs, c.T, c.i_size>>)
      [] a = "h0" -> randn(c.seed * 16 + 2, state_shape(c, c.h_size))
      [] a = "proj_h_0" -> randn(c.seed * 16 + 2, state_shape(c, c.proj_size))
      [] a = "c0" -> IF c.c0_zero THEN zeros(state_shape(c, c.h_size))
                     ELSE randn(c.seed * 16 + 3, state_shape(c, c.h_size))
      [] a = "w_ih" -> parameter(c.seed, 4, <<4 * c.h_size, c.i_size>>)
      [] a = "w_hh" -> parameter(c.seed, 5, <<4 * c.h_size, c.h_size>>)
      [] a = "w_hh_p" -> parameter(c.seed, 5, <<4 * c.h_size, c.proj_size>>)
      [] a = "b_ih" -> parameter(c.seed, 6, <<4 * c.h_size>>)
      [] a = "b_hh" -> parameter(c.seed, 7, <<4 * c.h_size>>)
      [] a = "w_hr" -> IF c.hr = "none" THEN None
                       ELSE IF c.hr = "identity" THEN eye(c.h_size)
                       ELSE randn(c.seed * 16 + 8, <<c.proj_size, c.h_size>>)
      [] a = "g_w_ih" -> parameter(c.seed, 9, <<3 * c.h_size, c.i_size>>)
      [] a = "g_w_hh" -> parameter(c.seed, 10, <<3 * c.h_size, c.h_size>>)
      [] a = "g_b_ih" -> parameter(c.seed, 11, <<3 * c.h_size>>)
      [] a = "g_b_hh" -> parameter(c.seed, 12, <<3 * c.h_size>>)

NoGates == <<>>

IdleCall ==
    [pc |-> "idle", t |-> 0, prev_h |-> "unbound", prev_c |-> "unbound",
     gates |-> NoGates, ret |-> [output |-> None, h |-> None, c |-> None]]

Init ==
    /\ cfg \in {c \in Configs : ValidConfig(c)}
    /\ mem = [a \in Objects |->
                 IF a \in CallerObjects THEN CallerValue(cfg, a) ELSE None]
    /\ call = [f \in Fn |-> IdleCall]

(***************************************************************************)
(* What the three functions share.                                          *)
(***************************************************************************)
\* w.unsqueeze(0).tile(bs, 1, 1)
batch_w(w, bs) == tile(unsqueeze0(w), <<bs, 1, 1>>)

\* x[:, lo:] and x[lo:]: a slice to the end
slice_cols_from(x, lo) == Bind(x, LAMBDA v : slice_cols(v, lo, Len(v.data)))

slice_rows_from(x, lo) == Bind(x, LAMBDA v : slice_rows(v, lo, Len(v.data)))

\* prev = value: the name is bound to a new tensor, the old one is left as it was
rebind_in_place(m, old, fresh, value) ==
    [mem |-> [m EXCEPT ![old] = value], ref |-> old]

rebind(m, old, fresh, value) ==
    [mem |-> [m EXCEPT ![fresh] = value], ref |-> fresh]

\* output_h[:, t, :] = value
store_output(m, out, t, value) ==
    [m EXCEPT ![out] = index_put_time(m[out], t, value)]

\* the tensors each call is given
Args(f) ==
    CASE f = "lstm" ->
           [h0 |-> "h0", c0 |-> "c0", w_ih |-> "w_ih", w_hh |-> "w_hh",
            b_ih |-> "b_ih", b_hh |-> "b_hh", w_hr |-> "w_hr"]
      [] f = "lstmp" ->
           IF cfg.hr = "none"
           THEN [h0 |-> "h0", c0 |-> "c0", w_ih |-> "w_ih", w_hh |-> "w_hh",
                 b_ih |-> "b_ih", b_hh |-> "b_hh", w_hr |-> "w_hr"]
           ELSE [h0 |-> "proj_h_0", c0 |-> "c0", w_ih |-> "w_ih",
                 w_hh |-> "w_hh_p", b_ih |-> "b_ih", b_hh |-> "b_hh",
                 w_hr |-> "w_hr"]
      [] f = "gru" ->
           [h0 |-> "h0", c0 |-> "unbound", w_ih |-> "g_w_ih",
            w_hh |-> "g_w_hh", b_ih |-> "g_b_ih", b_hh |-> "g_b_hh",
            w_hr |-> "w_hr"]

\* bs, T, i_size = data.shape
bs_of(m) == m["data"].shape[1]

T_of(m) == m["data"].shape[2]

\* h_size = w_ih.shape[0] // groups
h_size_of(w_ih, groups) == w_ih.shape[1] \div groups

\* the locals after a pass of the loop body that ran to its end
Passed(m, prev_h, prev_c, gates) ==
    [ok |-> TRUE, mem |-> m, prev_h |-> prev_h, prev_c |-> prev_c,
     gates |-> gates]

\* a pass of the loop body that raised
Failed == [ok |-> FALSE]

\* x = data[:, t, :]; w_times_x = torch.bmm(batch_w_ih, x.unsqueeze(-1))
w_times_x(m, a, t) ==
    bmm(batch_w(m[a.w_ih], bs_of(m)),
        unsqueezeLast(select_time(m["data"], t)))

(***************************************************************************)
(* lstm_forward(data, initial_states, w_ih, w_hh, b_ih, b_hh)               *)
(***************************************************************************)
lstm_pre_activation(m, a, prev_h, t) ==
    add(add(add(squeeze(w_times_x(m, a, t)), m[a.b_ih]),
            squeeze(bmm(batch_w(m[a.w_hh], bs_of(m)),
                        unsqueezeLast(
                            reshape(m[prev_h],
                                    <<bs_of(m), h_size_of(m[a.w_ih], 4)>>))))),
        m[a.b_hh])

lstm_gates_tanh_output(z, h_size) ==
    [i_t |-> sigmoid(slice_cols(z, 0, h_size)),
     f_t |-> sigmoid(slice_cols(z, h_size, 2 * h_size)),
     g_t |-> tanh(slice_cols(z, 2 * h_size, 3 * h_size)),
     o_t |-> tanh(slice_cols_from(z, 3 * h_size))]

lstm_gates_swapped(z, h_size) ==
    [i_t |-> sigmoid(slice_cols(z, h_size, 2 * h_size)),
     f_t |-> sigmoid(slice_cols(z, 0, h_size)),
     g_t |-> tanh(slice_cols(z, 2 * h_size, 3 * h_size)),
     o_t |-> sigmoid(slice_cols_from(z, 3 * h_size))]

lstm_gates(z, h_size) ==
    [i_t |-> sigmoid(slice_cols(z, 0, h_size)),
     f_t |-> sigmoid(slice_cols(z, h_size, 2 * h_size)),
     g_t |-> tanh(slice_cols(z, 2 * h_size, 3 * h_size)),
     o_t |-> sigmoid(slice_cols_from(z, 3 * h_size))]

\* prev_c = f_t*prev_c + i_t*g_t
lstm_cell(g, prev_c) == add(mul(g.f_t, prev_c), mul(g.i_t, g.g_t))

\* prev_h = o_t*torch.tanh(prev_c)
lstm_hidden(g, c) == mul(g.o_t, tanh(c))

\* the assignments that end a pass: prev_c, prev_h, output_h[:, t, :]
lstm_assign(m, f, loc, g, c, h) ==
    Bind(rebind(m, loc.prev_c, fresh_c(f), c), LAMBDA bc :
    Bind(rebind(bc.mem, loc.prev_h, fresh_h(f), h), LAMBDA bh :
    Bind(store_output(bh.mem, output_h(f), loc.t, bh.mem[bh.ref]), LAMBDA m3 :
        IF c.ok /\ h.ok /\ m3[output_h(f)].ok
        THEN Passed(m3, bh.ref, bc.ref, g)
        ELSE Failed)))

\* one pass of the loop body at time loc.t
lstm_iteration(m, f, loc) ==
    Bind(lstm_pre_activation(m, Args(f), loc.prev_h, loc.t), LAMBDA z :
    Bind(lstm_gates(z, h_size_of(m[Args(f).w_ih], 4)), LAMBDA g :
    Bind(lstm_cell(g, m[loc.prev_c]), LAMBDA c :
    Bind(lstm_hidden(g, c), LAMBDA h :
        lstm_assign(m, f, loc, g, c, h)))))

\* output_h = torch.zeros(bs, T, output_size), output_size = h_size
lstm_output_buffer(m, f) ==
    zeros(<<bs_of(m), T_of(m), h_size_of(m[Args(f).w_ih], 4)>>)

\* return output_h, (prev_h, prev_c)
lstm_return(m, f, loc) ==
    [output |-> m[output_h(f)], h |-> m[loc.prev_h], c |-> m[loc.prev_c]]

(***************************************************************************)
(* lstm_forward(data, initial_states, w_ih, w_hh, b_ih, b_hh, w_hr=None)    *)
(***************************************************************************)
\* p_size is assigned only under "if w_hr is not None"; elsewhere it is unbound
lstmp_p_size(w_hr) == IF w_hr # None THEN w_hr.shape[1] ELSE -1

lstmp_output_size(w_ih, w_hr) ==
    IF w_hr # None THEN lstmp_p_size(w_hr) ELSE h_size_of(w_ih, 4)

\* prev_h.reshape(bs, p_size): reading the unbound p_size raises
lstmp_reshape_prev_h(prev_h, bs, p_size) ==
    IF p_size < 0 THEN Raised ELSE reshape(prev_h, <<bs, p_size>>)

lstmp_pre_activation(m, a, prev_h, t) ==
    add(add(add(squeeze(w_times_x(m, a, t)), m[a.b_ih]),
            squeeze(bmm(batch_w(m[a.w_hh], bs_of(m)),
                        unsqueezeLast(
                            lstmp_reshape_prev_h(m[prev_h], bs_of(m),
                                                 lstmp_p_size(m[a.w_hr])))))),
        m[a.b_hh])

lstmp_gates(z, h_size) ==
    [i_t |-> sigmoid(slice_cols(z, 0, h_size)),
     f_t |-> sigmoid(slice_cols(z, h_size, 2 * h_size)),
     g_t |-> tanh(slice_cols(z, 2 * h_size, 3 * h_size)),
     o_t |-> sigmoid(slice_cols_from(z, 3 * h_size))]

lstmp_cell_no_input_gate(g, prev_c) == add(mul(g.f_t, prev_c), g.g_t)

\* prev_c = f_t*prev_c + i_t*g_t
lstmp_cell(g, prev_c) == add(mul(g.f_t, prev_c), mul(g.i_t, g.g_t))

\* prev_h = o_t*torch.tanh(prev_c)
lstmp_hidden(g, c) == mul(g.o_t, tanh(c))

lstmp_project_activated(w_hr, bs, h) ==
    IF w_hr # None
    THEN tanh(squeeze(bmm(batch_w(w_hr, bs), unsqueezeLast(squeeze(h)))))
    ELSE h

\* if w_hr is not None:
\*     prev_h = torch.bmm(batch_w_hr, prev_h.squeeze().unsqueeze(-1)); prev_h = prev_h.squeeze()
lstmp_project(w_hr, bs, h) ==
    IF w_hr # None
    THEN squeeze(bmm(batch_w(w_hr, bs), unsqueezeLast(squeeze(h))))
    ELSE h

lstmp_iteration(m, f, loc) ==
    Bind(lstmp_pre_activation(m, Args(f), loc.prev_h, loc.t), LAMBDA z :
    Bind(lstmp_gates(z, h_size_of(m[Args(f).w_ih], 4)), LAMBDA g :
    Bind(lstmp_cell(g, m[loc.prev_c]), LAMBDA c :
    Bind(lstmp_hidden(g, c), LAMBDA h_full :
    Bind(lstmp_project(m[Args(f).w_hr], bs_of(m), h_full), LAMBDA h :
        lstm_assign(m, f, loc, g, c, h))))))

lstmp_output_buffer(m, f) ==
    zeros(<<bs_of(m), T_of(m),
            lstmp_output_size(m[Args(f).w_ih], m[Args(f).w_hr])>>)

\* return output_h, (prev_h.reshape(1, bs, output_size), prev_c)
lstmp_return(m, f, loc) ==
    [output |-> m[output_h(f)],
     h |-> reshape(m[loc.prev_h],
                   <<1, bs_of(m),
                     lstmp_output_size(m[Args(f).w_ih], m[Args(f).w_hr])>>),
     c |-> m[loc.prev_c]]

(***************************************************************************)
(* gru_forward(data, initial_states, w_ih, w_hh, b_ih, b_hh)                *)
(***************************************************************************)
\* w_times_prev_h = torch.bmm(batch_w_hh, prev_h.reshape(bs,h_size).unsqueeze(-1))
gru_w_times_prev_h(m, a, prev_h) ==
    bmm(batch_w(m[a.w_hh], bs_of(m)),
        unsqueezeLast(reshape(m[prev_h],
                              <<bs_of(m), h_size_of(m[a.w_ih], 3)>>)))

gru_r_z_before_activating(wx, wh, b_ih, b_hh, h_size) ==
    add(add(add(slice_cols(squeeze(wx), 0, 2 * h_size),
                slice_rows(b_ih, 0, 2 * h_size)),
            slice_cols(squeeze(wh), 0, 2 * h_size)),
        slice_rows(b_hh, 0, 2 * h_size))

\* r_t, z_t = sigmoid of the two blocks of r_z_before_activating
gru_reset_update(r_z, h_size) ==
    [r_t |-> sigmoid(slice_cols(r_z, 0, h_size)),
     z_t |-> sigmoid(slice_cols(r_z, h_size, 2 * h_size))]

gru_candidate_reset_all(wx, wh, b_ih, b_hh, r_t, h_size) ==
    tanh(mul(r_t,
             add(add(slice_cols_from(squeeze(wx), 2 * h_size),
                     slice_rows_from(b_ih, 2 * h_size)),
                 add(slice_cols_from(squeeze(wh), 2 * h_size),
                     slice_rows_from(b_hh, 2 * h_size)))))

\* n_t = tanh(wx[:, 2h:] + b_ih[2h:] + r_t*(wh[:, 2h:] + b_hh[2h:]))
gru_candidate(wx, wh, b_ih, b_hh, r_t, h_size) ==
    tanh(add(add(slice_cols_from(squeeze(wx), 2 * h_size),
                 slice_rows_from(b_ih, 2 * h_size)),
             mul(r_t,
                 add(slice_cols_from(squeeze(wh), 2 * h_size),
                     slice_rows_from(b_hh, 2 * h_size)))))

\* prev_h = (1-z_t)*n_t + z_t*prev_h
gru_hidden(z_t, n_t, prev_h) ==
    add(mul(one_minus(z_t), n_t), mul(z_t, prev_h))

\* the assignments that end a pass: prev_h, output_h[:, t, :]
gru_assign(m, f, loc, g, h) ==
    Bind(rebind(m, loc.prev_h, fresh_h(f), h), LAMBDA bh :
    Bind(store_output(bh.mem, output_h(f), loc.t, bh.mem[bh.ref]), LAMBDA m3 :
        IF h.ok /\ m3[output_h(f)].ok
        THEN Passed(m3, bh.ref, loc.prev_c, g)
        ELSE Failed))

gru_gates(m, a, wx, wh) ==
    Bind(gru_reset_update(
             gru_r_z_before_activating(wx, wh, m[a.b_ih], m[a.b_hh],
                                       h_size_of(m[a.w_ih], 3)),
             h_size_of(m[a.w_ih], 3)), LAMBDA rz :
        [r_t |-> rz.r_t, z_t |-> rz.z_t,
         n_t |-> gru_candidate(wx, wh, m[a.b_ih], m[a.b_hh], rz.r_t,
                               h_size_of(m[a.w_ih], 3))])

gru_iteration(m, f, loc) ==
    Bind2(w_times_x(m, Args(f), loc.t),
          gru_w_times_prev_h(m, Args(f), loc.prev_h), LAMBDA wx, wh :
    Bind(gru_gates(m, Args(f), wx, wh), LAMBDA g :
    Bind(gru_hidden(g.z_t, g.n_t, m[loc.prev_h]), LAMBDA h :
        gru_assign(m, f, loc, g, h))))

gru_output_buffer(m, f) ==
    zeros(<<bs_of(m), T_of(m), h_size_of(m[Args(f).w_ih], 3)>>)

\* return output_h, prev_h
gru_return(m, f, loc) ==
    [output |-> m[output_h(f)], h |-> m[loc.prev_h], c |-> None]

(***************************************************************************)
(* The calls, in the order of the notebook's cells.                         *)
(***************************************************************************)
Finished(f) == call[f].pc \in {"returned", "raised"}

\* the cells before f's have run
CellsBefore(f) ==
    CASE f = "lstm" -> TRUE
      [] f = "lstmp" -> Finished("lstm")
      [] f = "gru" -> Finished("lstm") /\ Finished("lstmp")

output_buffer(m, f) ==
    CASE f = "lstm" -> lstm_output_buffer(m, f)
      [] f = "lstmp" -> lstmp_output_buffer(m, f)
      [] f = "gru" -> gru_output_buffer(m, f)

iteration(m, f, loc) ==
    CASE f = "lstm" -> lstm_iteration(m, f, loc)
      [] f = "lstmp" -> lstmp_iteration(m, f, loc)
      [] f = "gru" -> gru_iteration(m, f, loc)

return_value(m, f, loc) ==
    CASE f = "lstm" -> lstm_return(m, f, loc)
      [] f = "lstmp" -> lstmp_return(m, f, loc)
      [] f = "gru" -> gru_return(m, f, loc)

\* the function is entered: its locals are bound and its output buffer made
Enter(f) ==
    /\ call[f].pc = "idle"
    /\ CellsBefore(f)
    /\ mem' = [mem EXCEPT ![output_h(f)] = output_buffer(mem, f)]
    /\ call' = [call EXCEPT ![f] =
                   [@ EXCEPT !.pc = "loop", !.t = 0,
                             !.prev_h = Args(f).h0, !.prev_c = Args(f).c0]]
    /\ UNCHANGED cfg

\* for t in range(T): one pass of the body, or the exception it raises
Iterate(f) ==
    /\ call[f].pc = "loop"
    /\ call[f].t < T_of(mem)
    /\ \E r \in {iteration(mem, f, call[f])} :
           IF r.ok
           THEN /\ mem' = r.mem
                /\ call' = [call EXCEPT ![f] =
                               [@ EXCEPT !.t = @ + 1, !.prev_h = r.prev_h,
                                         !.prev_c = r.prev_c,
                                         !.gates = r.gates]]
           ELSE /\ call' = [call EXCEPT ![f].pc = "raised"]
                /\ UNCHANGED mem
    /\ UNCHANGED cfg

\* the return statement after the loop, or the exception it raises
Return(f) ==
    /\ call[f].pc = "loop"
    /\ call[f].t = T_of(mem)
    /\ \E r \in {return_value(mem, f, call[f])} :
           IF r.output.ok /\ r.h.ok
           THEN call' = [call EXCEPT ![f] =
                            [@ EXCEPT !.pc = "returned", !.ret = r]]
           ELSE call' = [call EXCEPT ![f].pc = "raised"]
    /\ UNCHANGED <<cfg, mem>>

Next == \E f \in Fn : Enter(f) \/ Iterate(f) \/ Return(f)

Spec == Init /\ [][Next]_vars

(***************************************************************************)
(* The recurrences of the reference layers (the formulas of the notebook's  *)
(* markdown cells), element by element over the tensors the caller passed.  *)
(* A state is a pair of flat row-major sequences: h of bs rows of the       *)
(* carried width, c of bs rows of h_size.                                   *)
(***************************************************************************)
\* the value of a caller's tensor on entry
Entry(a) == CallerValue(cfg, a)

RECURSIVE SumSeq(_)
SumSeq(s) == IF s = <<>> THEN 0 ELSE Head(s) + SumSeq(Tail(s))

\* row r of matrix w (ncols wide) times the vector v[off + 1 .. off + ncols]
RowDot(w, r, ncols, v, off) ==
    SumSeq([k \in 1..ncols |-> MulNum(w.data[r * ncols + k], v[off + k])])

\* W_ih x_t + b_ih for batch element b, row r
RefInputPart(p, t, b, r) ==
    RowDot(p.w_ih, r, cfg.i_size, p.x.data, (b * cfg.T + t) * cfg.i_size)
        + p.b_ih.data[r + 1]

\* W_hh h + b_hh for batch element b, row r; width is the width of h
RefHiddenPart(p, h, width, b, r) ==
    RowDot(p.w_hh, r, width, h, b * width) + p.b_hh.data[r + 1]

RefParams(f) ==
    [x |-> Entry("data"), h0 |-> Entry(Args(f).h0),
     c0 |-> IF f = "gru" THEN None ELSE Entry(Args(f).c0),
     w_ih |-> Entry(Args(f).w_ih), w_hh |-> Entry(Args(f).w_hh),
     b_ih |-> Entry(Args(f).b_ih), b_hh |-> Entry(Args(f).b_hh),
     w_hr |-> IF f = "lstmp" THEN Entry("w_hr") ELSE None]

\* the width of the hidden state a call carries
CarriedWidth(f) ==
    IF f = "lstmp" /\ cfg.hr # "none" THEN cfg.proj_size ELSE cfg.h_size

BatchOf(n, width) == (n - 1) \div width

ColOf(n, width) == (n - 1) % width

\* z_t[b, r] = W_ih x_t + b_ih + W_hh h_{t-1} + b_hh
RefZ(p, h, width, t, b, r) ==
    RefInputPart(p, t, b, r) + RefHiddenPart(p, h, width, b, r)

\* i, f, g, o of step t: block k of z_t is rows [k*H, (k+1)*H)
RefLstmGates(p, h, width, t) ==
    LET H == cfg.h_size
        Z(n, k) == RefZ(p, h, width, t, BatchOf(n, H), k * H + ColOf(n, H))
    IN  [i_t |-> Values([n \in 1..(cfg.bs * H) |-> SigmoidNum(Z(n, 0))]),
         f_t |-> Values([n \in 1..(cfg.bs * H) |-> SigmoidNum(Z(n, 1))]),
         g_t |-> Values([n \in 1..(cfg.bs * H) |-> TanhNum(Z(n, 2))]),
         o_t |-> Values([n \in 1..(cfg.bs * H) |-> SigmoidNum(Z(n, 3))])]

\* h_t <- W_hr h_t, when there is a projection
RefProject(p, h) ==
    IF p.w_hr = None THEN h
    ELSE LET H == cfg.h_size
             P == cfg.proj_size
         IN  Values([n \in 1..(cfg.bs * P) |->
                        RowDot(p.w_hr, ColOf(n, P), H, h, BatchOf(n, P) * H)])

\* c_t = f_t*c_{t-1} + i_t*g_t, h_t = o_t*tanh(c_t), then the projection
RefLstmStep(p, st, width, t) ==
    Bind(RefLstmGates(p, st.h, width, t), LAMBDA g :
    Bind(Values([n \in 1..(cfg.bs * cfg.h_size) |->
                    MulNum(g.f_t[n], st.c[n]) + MulNum(g.i_t[n], g.g_t[n])]),
         LAMBDA c :
        [h |-> RefProject(p,
                   Values([n \in 1..(cfg.bs * cfg.h_size) |->
                              MulNum(g.o_t[n], TanhNum(c[n]))])),
         c |-> c, gates |-> g]))

\* the states after 0, 1, .. t steps (entry s + 1 is the state after s steps);
\* step s reads x_{s-1}
RECURSIVE RefLstm(_, _, _)
RefLstm(p, width, t) ==
    IF t = 0 THEN <<[h |-> p.h0.data, c |-> p.c0.data, gates |-> NoGates]>>
    ELSE Bind(RefLstm(p, width, t - 1), LAMBDA tr :
             Append(tr, RefLstmStep(p, tr[t], width, t - 1)))

\* r, z, n of the GRU step t and the new h
RefGruStep(p, h, t) ==
    LET H == cfg.h_size
        In(n, k) == RefInputPart(p, t, BatchOf(n, H), k * H + ColOf(n, H))
        Hid(n, k) == RefHiddenPart(p, h, H, BatchOf(n, H), k * H + ColOf(n, H))
    IN  Bind2(Values([n \in 1..(cfg.bs * H) |->
                         SigmoidNum(In(n, 0) + Hid(n, 0))]),
              Values([n \in 1..(cfg.bs * H) |->
                         SigmoidNum(In(n, 1) + Hid(n, 1))]),
              LAMBDA r, z :
        Bind(Values([n \in 1..(cfg.bs * H) |->
                        TanhNum(In(n, 2) + MulNum(r[n], Hid(n, 2)))]),
             LAMBDA c :
            [h |-> Values([n \in 1..(cfg.bs * H) |->
                              MulNum(One - z[n], c[n]) + MulNum(z[n], h[n])]),
             gates |-> [r_t |-> r, z_t |-> z, n_t |-> c]]))

\* the states after 0, 1, .. t steps of the GRU
RECURSIVE RefGru(_, _)
RefGru(p, t) ==
    IF t = 0 THEN <<[h |-> p.h0.data, gates |-> NoGates]>>
    ELSE Bind(RefGru(p, t - 1), LAMBDA tr :
             Append(tr, RefGruStep(p, tr[t].h, t - 1)))

\* the contents of out[:, s, :], row-major
OutputSlot(out, s) ==
    Values([n \in 1..(out.shape[1] * out.shape[3]) |->
               out.data[(BatchOf(n, out.shape[3]) * out.shape[2] + s)
                            * out.shape[3] + ColOf(n, out.shape[3]) + 1]])

\* the data of each gate tensor of a call's latest pass
GateData(g) == [k \in DOMAIN g |-> g[k].data]

\* the call is inside its loop or has returned: call[f].t passes have run
Running(f) == call[f].pc \in {"loop", "returned"}

Returned(f) == call[f].pc = "returned"

Half == One \div 2

AllEqual(s, v) == \A k \in 1..Len(s) : s[k] = v

(***************************************************************************)
(* Claims.                                                                  *)
(***************************************************************************)
\* what an LSTM call has computed after call[f].t passes, against the recurrence
LstmFollows(f) ==
    Bind(RefParams(f), LAMBDA p :
    Bind(RefLstm(p, CarriedWidth(f), call[f].t), LAMBDA ref :
        /\ mem[call[f].prev_h].data = ref[call[f].t + 1].h
        /\ mem[call[f].prev_c].data = ref[call[f].t + 1].c
        /\ call[f].t >= 1 =>
               GateData(call[f].gates) = ref[call[f].t + 1].gates
        /\ \A s \in 1..call[f].t :
               OutputSlot(mem[output_h(f)], s - 1) = ref[s + 1].h
        /\ Returned(f) =>
               /\ call[f].ret.h.data = ref[call[f].t + 1].h
               /\ call[f].ret.c.data = ref[call[f].t + 1].c
               /\ call[f].ret.output = mem[output_h(f)]))

\* C1: plain lstm_forward. After every pass t of the loop the gates are
\* sigmoid/sigmoid/tanh/sigmoid of blocks 0..3 of z_t, c_t = f_t*c_{t-1} + i_t*g_t,
\* h_t = o_t*tanh(c_t); output slot t holds h_t; the call returns (h_T, c_T).
C1_LstmRecurrence == Running("lstm") => LstmFollows("lstm")

C1_Witness ==
    /\ Returned("lstm")
    /\ cfg.T >= 2 /\ cfg.h_size >= 2 /\ cfg.seed >= 1
    /\ ~AllEqual(call["lstm"].ret.h.data, 0)

Width(x) == x.shape[Len(x.shape)]

\* C3: lstm_forward with w_hr. After every pass t the carried and stored h_t is
\* W_hr (o_t*tanh(c_t)), of width P, and it is what W_hh multiplies in pass t+1;
\* c_t is never projected and has width H; the call returns (projected h_T, c_T).
C3_ProjectedRecurrence ==
    (Running("lstmp") /\ cfg.hr # "none") =>
        /\ LstmFollows("lstmp")
        /\ Width(mem[call["lstmp"].prev_c]) = cfg.h_size
        /\ Len(mem[call["lstmp"].prev_c].data) = cfg.bs * cfg.h_size
        /\ call["lstmp"].t >= 1 =>
               Len(mem[call["lstmp"].prev_h].data) = cfg.bs * cfg.proj_size
        /\ mem[output_h("lstmp")].shape = <<cfg.bs, cfg.T, cfg.proj_size>>
        /\ Returned("lstmp") =>
               /\ call["lstmp"].ret.h.shape = <<1, cfg.bs, cfg.proj_size>>
               /\ Width(call["lstmp"].ret.c) = cfg.h_size

C3_Witness ==
    /\ Returned("lstmp")
    /\ cfg.hr = "random" /\ cfg.proj_size < cfg.h_size
    /\ cfg.T >= 2 /\ cfg.seed >= 1
    /\ ~AllEqual(call["lstmp"].ret.h.data, 0)

\* the shapes C4 names for call f
ShapesAsDeclared(f) ==
    /\ call[f].ret.output.shape = <<cfg.bs, cfg.T, CarriedWidth(f)>>
    /\ call[f].ret.h.shape = <<1, cfg.bs, CarriedWidth(f)>>
    /\ f # "gru" => call[f].ret.c.shape = <<1, cfg.bs, cfg.h_size>>

\* C4: with B, T, I, H >= 1, 1 <= P <= H and the initial states given with the
\* leading axis, every call completes without a shape failure and returns
\* output (B,T,H) / (B,T,P) / (B,T,H), final h (1,B,H) / (1,B,P) / (1,B,H) and
\* final LSTM c (1,B,H).
C4_ShapesForEverySize ==
    \A f \in Fn :
        (cfg.layout = 3 /\ cfg.T >= 1 /\ (f = "lstmp" => cfg.hr # "none")) =>
            /\ call[f].pc # "raised"
            /\ Returned(f) => ShapesAsDeclared(f)

\* C5: without w_hr the generalized lstm_forward completes, for every T >= 0, and
\* returns the output sequence and final (h_T, c_T) of the plain lstm_forward.
C5_NoProjectionIsPlain ==
    (cfg.hr = "none" /\ Returned("lstm") /\ Finished("lstmp")) =>
        /\ Returned("lstmp")
        /\ call["lstmp"].ret.output = call["lstm"].ret.output
        /\ call["lstmp"].ret.h.data = call["lstm"].ret.h.data
        /\ call["lstmp"].ret.c.data = call["lstm"].ret.c.data

\* C6: with P = H and W_hr the identity matrix, lstm_forward with projection
\* returns, for every input and every T, the output sequence and the final
\* hidden and cell state values of the plain lstm_forward.
C6_IdentityProjectionIsPlain ==
    (cfg.hr = "identity" /\ Returned("lstm") /\ Finished("lstmp")) =>
        /\ Returned("lstmp")
        /\ call["lstmp"].ret.output.data = call["lstm"].ret.output.data
        /\ call["lstmp"].ret.h.data = call["lstm"].ret.h.data
        /\ call["lstmp"].ret.c.data = call["lstm"].ret.c.data

\* both LSTM calls have returned, the second with a projection weight and P = H
BothReturnedProjected ==
    /\ Returned("lstm") /\ Returned("lstmp")
    /\ cfg.hr # "none" /\ cfg.proj_size = cfg.h_size

ZeroWeightGates(f) ==
    /\ AllEqual(call[f].gates.i_t.data, Half)
    /\ AllEqual(call[f].gates.f_t.data, Half)
    /\ AllEqual(call[f].gates.o_t.data, Half)
    /\ AllEqual(call[f].gates.g_t.data, 0)

\* c_t = 0, and h_t = 0 as carried and as written to every slot so far
ZeroState(f) ==
    /\ AllEqual(mem[call[f].prev_c].data, 0)
    /\ AllEqual(mem[call[f].prev_h].data, 0)
    /\ \A s \in 0..(call[f].t - 1) :
           AllEqual(OutputSlot(mem[output_h(f)], s), 0)

\* an LSTM call with all of W_ih, W_hh, b_ih, b_hh zero has run a pass
ZeroWeightPass(f) == cfg.seed = 0 /\ Running(f) /\ call[f].t >= 1

\* C8, as claimed: with zero weights and biases, for every input and whatever
\* the initial states, after every step the sigmoid gates are 0.5, g_t is 0 and
\* c_t and h_t are 0.
C8_ZeroWeightsZeroState ==
    \A f \in {"lstm", "lstmp"} :
        ZeroWeightPass(f) => ZeroWeightGates(f) /\ ZeroState(f)

\* C8, amended: with zero weights and biases, for every input and whatever the
\* initial states, after every step the sigmoid gates are 0.5 and g_t is 0; when
\* also c0 = 0, c_t and h_t are 0 (otherwise c_t = 0.5*c_{t-1}).
C8_ZeroWeightsZeroCell ==
    \A f \in {"lstm", "lstmp"} :
        ZeroWeightPass(f) =>
            /\ ZeroWeightGates(f)
            /\ cfg.c0_zero => ZeroState(f)

C8_Witness ==
    /\ cfg.seed = 0 /\ cfg.c0_zero /\ cfg.T >= 2
    /\ Returned("lstm") /\ Returned("lstmp")
    /\ ~AllEqual(Entry("data").data, 0) /\ ~AllEqual(Entry("h0").data, 0)

\* C9: both LSTM forwards, for T >= 0 and initial states given as (B,H) or with
\* the leading axis, return the final hidden state as (1,B,output_size) and the
\* final cell state as (1,B,H).
C9_FinalStatesHaveLayerAxis ==
    \A f \in {"lstm", "lstmp"} :
        Returned(f) =>
            /\ call[f].ret.h.shape = <<1, cfg.bs, CarriedWidth(f)>>
            /\ call[f].ret.c.shape = <<1, cfg.bs, cfg.h_size>>

\* what a step leaves alone in call f
FrameOfCall(f) ==
    /\ (call[f].pc = "loop" /\ call'[f].pc = "loop") =>
           /\ call'[f].prev_h = fresh_h(f)
           /\ f # "gru" => call'[f].prev_c = fresh_c(f)
           /\ \A s \in 0..(T_of(mem) - 1) :
                  s # call[f].t =>
                      OutputSlot(mem'[output_h(f)], s)
                          = OutputSlot(mem[output_h(f)], s)
    /\ call[f].pc # "loop" /\ call[f].pc # "idle" =>
           mem'[output_h(f)] = mem[output_h(f)]

\* C10: no step of any of the three functions changes a tensor of the caller
\* (data, h0, c0, weights, biases); a pass of the loop binds prev_h and prev_c to
\* new tensors and writes output slot t only, leaving every other slot as it was.
C10_NoMutation ==
    [][/\ \A a \in CallerObjects : mem'[a] = mem[a]
       /\ \A f \in Fn : FrameOfCall(f)]_vars

C10_Witness ==
    /\ \A f \in Fn : Returned(f)
    /\ cfg.T >= 2
    /\ \A a \in CallerObjects : mem[a] = Entry(a)
    /\ call["lstm"].prev_h = fresh_h("lstm")

=============================================================================
